---- MODULE Spec2Model ----
(***************************************************************************)
(* A model of the minetest-rust orchestration core: the Game loop          *)
(* scheduler (src/src/game.rs), the Server role's tick pipeline            *)
(* (src/src/game/server.rs) and the ServerConnection event boundary        *)
(* (src/src/game/server/server_connection.rs).                             *)
(*                                                                         *)
(* Two execution contexts exist: the loop thread, whose position is pc,    *)
(* and the ctrlc handler thread, which may run between any two steps of    *)
(* the loop thread.  The transport's receiver thread is the environment    *)
(* that appends to the listener's event queue.                             *)
(***************************************************************************)
EXTENDS Integers, Sequences, FiniteSets, TLC

\* ------------------------------------------------------------------ bounds
\* Most events the listener's queue holds at once.
MaxQueue == 2
\* Most calls of reset_lua_vm made after construction.
MaxResets == 2
\* Most events the queue holds at once under the fair specification.
MaxFairQueue == 1
\* h_flag_at_main counts no further than this.
MaxCounted == 2

\* ------------------------------------------------------- program constants
InitialGoalFramesPerSecond == 60
InitialGoalTicksPerSecond == 20
NanosPerSecond == 1000000000
\* The largest port a socket address can carry (u16); ServerConnection.port is i32.
MaxSocketPort == 65535
\* The strong count Rc::new gives an allocation.
RcNew == 1

\* ------------------------------------------------------------------ inputs
\* Option<T>: None is the empty sequence, Some(x) the one-element sequence.
None == << >>
Some(x) == << x >>
IsSome(o) == o /= None
Unwrap(o) == o[1]

\* cli.address / cli.port values handed to Game::new.
Addresses == {"127.0.0.1"}
Ports == {30000, 70000}
\* Sockets another process may already hold when Game::new runs.
ForeignSockets == {<< "127.0.0.1", 30000 >>}

\* delta_reporter.report() sample (milliseconds); Game.delta starts at 0.
Deltas == {16}
\* Rates handed to set_frame_rate_target / set_tick_rate_target.
RateInputs == {30}
\* fps_reporter.increment_and_report() samples.
\* Arguments of set_address and set_port.
AddressInputs == {"0.0.0.0"}
PortInputs == {30001}
FpsSamples == {59}

\* Message payloads: U+00E9 (the bytes C3 A9) and a lone lead byte C3.
Payloads == { << 195, 169 >>, << 195 >> }

NetEvent(kind, message) == [kind |-> kind, message |-> message]
\* StoredNodeEvent: Network(Connected | Accepted | Message | Disconnected) | Signal.
Events ==
    {NetEvent(k, << >>) : k \in {"Connected", "Accepted", "Disconnected", "Signal"}}
        \cup {NetEvent("Message", p) : p \in Payloads}

VARIABLES
    pc,                      \* position of the loop thread
    should_close,            \* Game.should_close: Arc<RwLock<bool>>
    serverclient,            \* tag of Game.serverclient: "Server" | "Client" | "None"
    goal_frames_per_second,  \* Game.goal_frames_per_second
    goal_ticks_per_second,   \* Game.goal_ticks_per_second
    interval,                \* period of Game.interval, in nanoseconds
    delta,                   \* Game.delta
    current_fps,             \* Game.current_fps
    vsync_mode,              \* Game.vsync_mode
    server,                  \* Server: [lua_engine, connection, shutdown_approved]
    client,                  \* Client: [quit, title]
    events,                  \* the listener's queue of StoredNodeEvent
    bound_sockets,           \* sockets held open in the operating system
    tick_delta,              \* the delta argument of the on_tick call in progress
    listen_out,              \* what the latest listen call printed and did
    h_trace,                 \* steps the current iteration has completed, in order
    h_vms,                   \* LuaEngine handles: [created] so far, [live] now, [peak] alive at once
    h_resets,                \* reset_lua_vm calls made after construction
    h_flag_at_main,          \* main() calls of this enter_main_loop begun with the flag set
    h_stop_reported,         \* the role reported stop in the current iteration
    h_first,                 \* the iteration in progress is the first of this enter_main_loop
    h_attempts,              \* binds of a socket tried so far: [socket, bound], oldest first
    server_strong            \* strong count of the Rc<RefCell<Server>> allocation

vars ==
    << pc, should_close, serverclient, goal_frames_per_second, goal_ticks_per_second,
       interval, delta, current_fps, vsync_mode, server, client, events, bound_sockets,
       tick_delta, listen_out, h_trace, h_vms, h_resets, h_flag_at_main,
       h_stop_reported, h_first, h_attempts, server_strong >>

\* ------------------------------------------------------------ std helpers
IsContinuation(x) == x >= 128 /\ x <= 191

\* core::str::from_utf8's acceptance test, from index i of bytes b.
RECURSIVE Utf8ValidFrom(_, _)
Utf8ValidFrom(b, i) ==
    IF i > Len(b) THEN TRUE
    ELSE LET x == b[i] IN
         IF x < 128 THEN Utf8ValidFrom(b, i + 1)
         ELSE IF x >= 194 /\ x <= 223
              THEN /\ i + 1 <= Len(b)
                   /\ IsContinuation(b[i + 1])
                   /\ Utf8ValidFrom(b, i + 2)
         ELSE IF x >= 224 /\ x <= 239
              THEN /\ i + 2 <= Len(b)
                   /\ IsContinuation(b[i + 1])
                   /\ (x = 224 => b[i + 1] >= 160)
                   /\ (x = 237 => b[i + 1] <= 159)
                   /\ IsContinuation(b[i + 2])
                   /\ Utf8ValidFrom(b, i + 3)
         ELSE IF x >= 240 /\ x <= 244
              THEN /\ i + 3 <= Len(b)
                   /\ IsContinuation(b[i + 1])
                   /\ (x = 240 => b[i + 1] >= 144)
                   /\ (x = 244 => b[i + 1] <= 143)
                   /\ IsContinuation(b[i + 2])
                   /\ IsContinuation(b[i + 3])
                   /\ Utf8ValidFrom(b, i + 4)
         ELSE FALSE

\* String::from_utf8(message): Ok keeps the bytes as they are, Err carries no string.
FromUtf8(message) ==
    IF Utf8ValidFrom(message, 1)
    THEN [ok |-> TRUE, string |-> message]
    ELSE [ok |-> FALSE, string |-> << >>]

\* ------------------------------------------------------- ServerConnection
\* get_socket: address, ':' and the decimal port; the pair stands for that string.
get_socket(conn) == << conn.address, conn.port >>

\* to_socket_addrs() on an IP literal and a port: Ok only for a u16 port.
ToSocketAddrsOk(socket) == socket[2] >= 0 /\ socket[2] <= MaxSocketPort

\* event_reaction whose Accepted and Disconnected arms return like the Connected arm.
event_reaction_tolerant(event) ==
    CASE event.kind = "Message" ->
           LET decoded == FromUtf8(event.message)
               receieved_string == IF decoded.ok THEN decoded.string ELSE << >>
           IN  [panicked |-> FALSE,
                surfaced |-> << receieved_string >>,
                attack_logged |-> ~decoded.ok]
      [] OTHER -> [panicked |-> FALSE, surfaced |-> << >>, attack_logged |-> FALSE]

\* event_reaction: what one network event does.
\*   panicked: the branch is todo!(); surfaced: the "received message" lines printed;
\*   attack_logged: the "message buffer attack detected" line was printed.
event_reaction(event) ==
    CASE event.kind = "Connected" ->
           [panicked |-> FALSE, surfaced |-> << >>, attack_logged |-> FALSE]
      [] event.kind = "Accepted" ->
           [panicked |-> TRUE, surfaced |-> << >>, attack_logged |-> FALSE]
      [] event.kind = "Message" ->
           LET decoded == FromUtf8(event.message)
               receieved_string == IF decoded.ok THEN decoded.string ELSE << >>
           IN  [panicked |-> FALSE,
                surfaced |-> << receieved_string >>,
                attack_logged |-> ~decoded.ok]
      [] event.kind = "Disconnected" ->
           [panicked |-> TRUE, surfaced |-> << >>, attack_logged |-> FALSE]

\* A receive that hands out the newest queued event.
receive_timeout_newest(queue) ==
    IF queue = << >>
    THEN [event |-> None, rest |-> queue]
    ELSE [event |-> Some(queue[Len(queue)]), rest |-> SubSeq(queue, 1, Len(queue) - 1)]

\* listener.receive_timeout(Duration::new(0, 0)): the oldest queued event, if any.
receive_timeout(queue) ==
    IF queue = << >>
    THEN [event |-> None, rest |-> queue]
    ELSE [event |-> Some(Head(queue)), rest |-> Tail(queue)]

\* What listen did: took is the event it removed, surfaced the "received message"
\* lines it printed, polls the receive_timeout calls it made.
ListenResult(panicked, queue, took, surfaced, attack_logged, polls) ==
    [panicked |-> panicked, queue |-> queue, took |-> took, surfaced |-> surfaced,
     attack_logged |-> attack_logged, polls |-> polls]

\* listen: one zero-timeout poll of the listener and the reaction to what it gave.
listen(conn, queue) ==
    IF ~IsSome(conn.listener)
    THEN ListenResult(TRUE, queue, None, << >>, FALSE, 0)
    ELSE LET got == receive_timeout(queue) IN
         IF ~IsSome(got.event)
         THEN ListenResult(FALSE, got.rest, None, << >>, FALSE, 1)
         ELSE LET event == Unwrap(got.event) IN
              IF event.kind = "Signal"
              THEN ListenResult(TRUE, got.rest, got.event, << >>, FALSE, 1)
              ELSE LET r == event_reaction(event) IN
                   ListenResult(r.panicked, got.rest, got.event, r.surfaced,
                                r.attack_logged, 1)

\* Server::on_tick calls connection.receive(); the ServerConnection of this tree
\* names its non-blocking poll listen.
receive(conn, queue) == listen(conn, queue)

\* set_address: stores the address.
set_address(conn, new_address) == [conn EXCEPT !.address = new_address]

\* set_port that opens a listener on the new socket in place of the old one.
set_port_rebinds(conn, new_port) ==
    [conn EXCEPT !.port = new_port,
                 !.task = Some(<< conn.address, new_port >>),
                 !.listener = Some(<< conn.address, new_port >>)]

\* set_port: stores the port.
set_port(conn, new_port) == [conn EXCEPT !.port = new_port]

\* initialize that keeps the task and lets the listener go.
initialize_task_only(conn, bound) ==
    LET socket_address == get_socket(conn) IN
    IF ~ToSocketAddrsOk(socket_address) \/ socket_address \in bound
    THEN [panicked |-> TRUE, conn |-> conn, bound |-> bound]
    ELSE [panicked |-> FALSE,
          conn |-> [conn EXCEPT !.task = Some(socket_address)],
          bound |-> bound \cup {socket_address}]

\* initialize on a transport that lets a held socket be bound once more.
initialize_reuse(conn, bound) ==
    LET socket_address == get_socket(conn) IN
    IF ~ToSocketAddrsOk(socket_address)
    THEN [panicked |-> TRUE, conn |-> conn, bound |-> bound]
    ELSE [panicked |-> FALSE,
          conn |-> [conn EXCEPT !.task = Some(socket_address),
                                !.listener = Some(socket_address)],
          bound |-> bound \cup {socket_address}]

\* initialize: resolve the socket, bind it, store the task and the listener.
initialize(conn, bound) ==
    LET socket_address == get_socket(conn) IN
    IF ~ToSocketAddrsOk(socket_address) \/ socket_address \in bound
    THEN [panicked |-> TRUE, conn |-> conn, bound |-> bound]
    ELSE [panicked |-> FALSE,
          conn |-> [conn EXCEPT !.task = Some(socket_address),
                                !.listener = Some(socket_address)],
          bound |-> bound \cup {socket_address}]

\* ServerConnection::new
ServerConnectionNew(address, port, bound) ==
    initialize([address |-> address, port |-> port, task |-> None, listener |-> None],
               bound)

\* ------------------------------------------------------------- LuaEngine
\* LuaEngine::new: a blank VM; id tells one handle from another.
LuaEngineNew(id) == [id |-> id, ticked |-> FALSE, delta |-> 0]
\* LuaEngine::on_tick(delta)
LuaEngineOnTick(engine, d) == [engine EXCEPT !.ticked = TRUE, !.delta = d]

\* ----------------------------------------------------------------- Server
\* The handle a dropped Option<LuaEngine> held, as a set of ids.
HandleIds(o) == IF IsSome(o) THEN {Unwrap(o).id} ELSE {}

\* delete_lua_vm: self.lua_engine = None (the old handle is dropped).
delete_lua_vm(s, vms) ==
    [server |-> [s EXCEPT !.lua_engine = None],
     vms |-> [vms EXCEPT !.live = @ \ HandleIds(s.lua_engine)]]

\* create_lua_vm: self.lua_engine = Some(LuaEngine::new(..)): the new handle is made,
\* then the assignment drops the handle the field held, if any.
create_lua_vm(s, vms) ==
    LET id == vms.created + 1 IN
    [server |-> [s EXCEPT !.lua_engine = Some(LuaEngineNew(id))],
     vms |-> [created |-> id,
              live |-> (vms.live \ HandleIds(s.lua_engine)) \cup {id},
              peak |-> IF Cardinality(vms.live) + 1 > vms.peak
                       THEN Cardinality(vms.live) + 1 ELSE vms.peak]]

\* reset_lua_vm that creates without deleting first.
reset_lua_vm_create_only(s, vms) == create_lua_vm(s, vms)

\* reset_lua_vm that deletes and does not create.
reset_lua_vm_delete_only(s, vms) == delete_lua_vm(s, vms)

\* reset_lua_vm: delete_lua_vm, then create_lua_vm.
reset_lua_vm(s, vms) ==
    LET deleted == delete_lua_vm(s, vms) IN create_lua_vm(deleted.server, deleted.vms)

\* Rc::clone and the drop of an Rc, on the strong count of the allocation.
RcClone(strong) == strong + 1
RcDrop(strong) == strong - 1

\* The Server as Rc::new(RefCell::new(Server { .. })) leaves it.
ServerAllocated == [lua_engine |-> None, connection |-> None, shutdown_approved |-> FALSE]

\* Server::new: allocate, build the ServerConnection, reset_lua_vm. The allocation is
\* cloned into the Server's own server_pointer and into the ServerConnection's
\* server_pointer before the first Rc is returned to the caller.
ServerNew(address, port, bound, vms) ==
    LET made == ServerConnectionNew(address, port, bound)
        strong == RcClone(RcClone(RcNew))
    IN  IF made.panicked
        THEN [panicked |-> TRUE, server |-> ServerAllocated, bound |-> bound,
              vms |-> vms, strong |-> strong]
        ELSE LET connected == [ServerAllocated EXCEPT !.connection = Some(made.conn)]
                 fresh == reset_lua_vm(connected, vms)
             IN  [panicked |-> FALSE, server |-> fresh.server, bound |-> made.bound,
                  vms |-> fresh.vms, strong |-> strong]

\* The holder of the Rc that Server::new returned drops it. The Server value, and with
\* it the LuaEngine and the ServerConnection its fields own, is dropped only when
\* the strong count of the allocation reaches zero.
drop_server(s, strong, vms, bound) ==
    LET left == RcDrop(strong) IN
    IF left > 0
    THEN [strong |-> left, server |-> s, vms |-> vms, bound |-> bound]
    ELSE [strong |-> left,
          server |-> [s EXCEPT !.lua_engine = None, !.connection = None],
          vms |-> [vms EXCEPT !.live = @ \ HandleIds(s.lua_engine)],
          bound |-> IF IsSome(s.connection) /\ IsSome(Unwrap(s.connection).listener)
                    THEN bound \ {Unwrap(Unwrap(s.connection).listener)}
                    ELSE bound]

\* shutdown_is_approved
shutdown_is_approved(s) == s.shutdown_approved

\* ----------------------------------------------------------------- Client
ClientNew == [quit |-> FALSE, title |-> "minetest"]
should_quit(c) == c.quit

\* ------------------------------------------------------------------- Game
\* Duration::from_secs_f64(1.0 / goal), in whole nanoseconds.
PeriodOf(goal) == NanosPerSecond \div goal

\* update_target_framerate_goal taking the frame goal whatever the role.
update_target_framerate_goal_frames(role, frames, ticks) == PeriodOf(frames)

\* update_target_framerate_goal with the arms of its match exchanged.
update_target_framerate_goal_swapped(role, frames, ticks) ==
    PeriodOf(IF role = "Client" THEN ticks ELSE frames)

\* update_target_framerate_goal: the period the interval is given.
update_target_framerate_goal(role, frames, ticks) ==
    PeriodOf(IF role = "Client" THEN frames ELSE ticks)

\* What a listen call that has not happened printed and did.
NoListen == [called |-> FALSE, polls |-> 0, took |-> None, left |-> 0,
             surfaced |-> << >>, attack_logged |-> FALSE]

\* The binds that left the given sockets held, as successful attempts.
RECURSIVE HeldBy(_)
HeldBy(sockets) ==
    IF sockets = {} THEN << >>
    ELSE LET s == CHOOSE x \in sockets : TRUE IN
         << [socket |-> s, bound |-> TRUE] >> \o HeldBy(sockets \ {s})

Init ==
    /\ pc = "new"
    /\ should_close = FALSE
    /\ serverclient = "None"
    /\ goal_frames_per_second = InitialGoalFramesPerSecond
    /\ goal_ticks_per_second = InitialGoalTicksPerSecond
    /\ interval = 0
    /\ delta = 0
    /\ current_fps = 0
    /\ vsync_mode = "Off"
    /\ server = ServerAllocated
    /\ client = ClientNew
    /\ events = << >>
    /\ bound_sockets \in SUBSET ForeignSockets
    /\ tick_delta = 0
    /\ listen_out = NoListen
    /\ h_trace = << >>
    /\ h_vms = [created |-> 0, live |-> {}, peak |-> 0]
    /\ h_resets = 0
    /\ h_flag_at_main = 0
    /\ h_stop_reported = FALSE
    /\ h_first = FALSE
    /\ h_attempts = HeldBy(bound_sockets)
    /\ server_strong = 0

\* Game::new, with cli.server, cli.address and cli.port as inputs.
GameNew ==
    /\ pc = "new"
    /\ \E is_server \in BOOLEAN, address \in Addresses, port \in Ports :
         LET loop_helper_goal == IF is_server THEN InitialGoalTicksPerSecond
                                              ELSE InitialGoalFramesPerSecond
             made == ServerNew(address, port, bound_sockets, h_vms)
         IN  /\ interval' = PeriodOf(loop_helper_goal)
             /\ IF is_server
                THEN /\ pc' = IF made.panicked THEN "panicked" ELSE "idle"
                     /\ serverclient' = IF made.panicked THEN "None" ELSE "Server"
                     /\ server' = made.server
                     /\ bound_sockets' = made.bound
                     /\ h_vms' = made.vms
                     /\ server_strong' = made.strong
                     /\ h_attempts' = Append(h_attempts,
                            [socket |-> << address, port >>, bound |-> ~made.panicked])
                ELSE /\ pc' = "idle"
                     /\ serverclient' = "Client"
                     /\ UNCHANGED << server, bound_sockets, h_vms, server_strong,
                                     h_attempts >>
    /\ should_close' = FALSE
    /\ goal_frames_per_second' = InitialGoalFramesPerSecond
    /\ goal_ticks_per_second' = InitialGoalTicksPerSecond
    /\ delta' = 0
    /\ current_fps' = 0
    /\ vsync_mode' = "Off"
    /\ client' = ClientNew
    /\ UNCHANGED << events, tick_delta, listen_out, h_trace, h_resets, h_flag_at_main,
                    h_stop_reported, h_first >>

\* The process is alive and Game::new has returned.
Constructed == pc \notin {"new", "panicked"}
\* The loop thread is not inside enter_main_loop: &mut self is free for a caller.
OutsideLoop == pc \in {"idle", "returned"}

\* The ctrlc handler: takes the write lock and stores true.
SignalHandler ==
    /\ Constructed
    /\ should_close' = TRUE
    /\ UNCHANGED << pc, serverclient, goal_frames_per_second, goal_ticks_per_second,
                    interval, delta, current_fps, vsync_mode, server, client, events,
                    bound_sockets, tick_delta, listen_out, h_trace, h_vms, h_resets,
                    h_flag_at_main, h_stop_reported, h_first, h_attempts, server_strong >>

\* shutdown_game storing the flag with the polarity of a "keep running" flag.
shutdown_game_clears == FALSE

\* shutdown_game: the value it stores in should_close.
shutdown_game == TRUE

\* shutdown_game called by the owner of the Game.
ShutdownGame ==
    /\ OutsideLoop
    /\ should_close' = shutdown_game
    /\ UNCHANGED << pc, serverclient, goal_frames_per_second, goal_ticks_per_second,
                    interval, delta, current_fps, vsync_mode, server, client, events,
                    bound_sockets, tick_delta, listen_out, h_trace, h_vms, h_resets,
                    h_flag_at_main, h_stop_reported, h_first, h_attempts, server_strong >>

\* set_frame_rate_target
SetFrameRateTarget ==
    /\ OutsideLoop
    /\ \E new_frames_per_second_goal \in RateInputs :
         /\ goal_frames_per_second' = new_frames_per_second_goal
         /\ interval' = update_target_framerate_goal(serverclient,
                            new_frames_per_second_goal, goal_ticks_per_second)
    /\ UNCHANGED << pc, should_close, serverclient, goal_ticks_per_second, delta,
                    current_fps, vsync_mode, server, client, events, bound_sockets,
                    tick_delta, listen_out, h_trace, h_vms, h_resets, h_flag_at_main,
                    h_stop_reported, h_first, h_attempts, server_strong >>

\* set_tick_rate_target
SetTickRateTarget ==
    /\ OutsideLoop
    /\ \E new_ticks_per_second_goal \in RateInputs :
         /\ goal_ticks_per_second' = new_ticks_per_second_goal
         /\ interval' = update_target_framerate_goal(serverclient,
                            goal_frames_per_second, new_ticks_per_second_goal)
    /\ UNCHANGED << pc, should_close, serverclient, goal_frames_per_second, delta,
                    current_fps, vsync_mode, server, client, events, bound_sockets,
                    tick_delta, listen_out, h_trace, h_vms, h_resets, h_flag_at_main,
                    h_stop_reported, h_first, h_attempts, server_strong >>

\* The Game goes out of scope outside its loop: its role container is dropped, and
\* with it the Rc of the Server it holds.
GameDrop ==
    /\ OutsideLoop
    /\ pc' = "dropped"
    /\ IF serverclient = "Server"
       THEN LET r == drop_server(server, server_strong, h_vms, bound_sockets) IN
            /\ server_strong' = r.strong
            /\ server' = r.server
            /\ h_vms' = r.vms
            /\ bound_sockets' = r.bound
       ELSE UNCHANGED << server_strong, server, h_vms, bound_sockets >>
    /\ UNCHANGED << should_close, serverclient, goal_frames_per_second,
                    goal_ticks_per_second, interval, delta, current_fps, vsync_mode,
                    client, events, tick_delta, listen_out, h_trace, h_resets,
                    h_flag_at_main, h_stop_reported, h_first, h_attempts >>

\* enter_main_loop written as while !should_close { self.main() }.
EnterMainLoopChecksFirst ==
    /\ OutsideLoop
    /\ pc' = IF should_close THEN "returned" ELSE "main"
    /\ h_flag_at_main' = 0
    /\ h_trace' = << >>
    /\ h_stop_reported' = FALSE
    /\ h_first' = TRUE
    /\ UNCHANGED << should_close, serverclient, goal_frames_per_second,
                    goal_ticks_per_second, interval, delta, current_fps, vsync_mode,
                    server, client, events, bound_sockets, tick_delta, listen_out,
                    h_vms, h_resets, h_attempts, server_strong >>

\* enter_main_loop is called: the loop thread stands before its first self.main().
EnterMainLoop ==
    /\ OutsideLoop
    /\ pc' = "main"
    /\ h_flag_at_main' = 0
    /\ h_trace' = << >>
    /\ h_stop_reported' = FALSE
    /\ h_first' = TRUE
    /\ UNCHANGED << should_close, serverclient, goal_frames_per_second,
                    goal_ticks_per_second, interval, delta, current_fps, vsync_mode,
                    server, client, events, bound_sockets, tick_delta, listen_out,
                    h_vms, h_resets, h_attempts, server_strong >>

\* main begins: self.delta = self.delta_reporter.report().
MainDelta ==
    /\ pc = "main"
    /\ \E report \in Deltas : delta' = report
    /\ pc' = "on_tick"
    /\ h_trace' = << "delta" >>
    /\ h_flag_at_main' = IF should_close /\ h_flag_at_main < MaxCounted
                         THEN h_flag_at_main + 1 ELSE h_flag_at_main
    /\ h_stop_reported' = FALSE
    /\ UNCHANGED << should_close, serverclient, goal_frames_per_second,
                    goal_ticks_per_second, interval, current_fps, vsync_mode, server,
                    client, events, bound_sockets, tick_delta, listen_out, h_vms,
                    h_resets, h_first, h_attempts, server_strong >>

\* Server::on_tick testing both fields before it polls.
on_tick_receive_checks_both(s, queue) ==
    IF IsSome(s.connection) /\ IsSome(s.lua_engine)
    THEN LET r == receive(Unwrap(s.connection), queue) IN
         [panicked |-> r.panicked, queue |-> r.queue,
          out |-> [called |-> TRUE, polls |-> r.polls, took |-> r.took,
                   left |-> Len(r.queue), surfaced |-> r.surfaced,
                   attack_logged |-> r.attack_logged]]
    ELSE [panicked |-> TRUE, queue |-> queue, out |-> NoListen]

\* Server::on_tick, first match: the network poll, or the panic on an absent connection.
on_tick_receive(s, queue) ==
    IF IsSome(s.connection)
    THEN LET r == receive(Unwrap(s.connection), queue) IN
         [panicked |-> r.panicked, queue |-> r.queue,
          out |-> [called |-> TRUE, polls |-> r.polls, took |-> r.took,
                   left |-> Len(r.queue), surfaced |-> r.surfaced,
                   attack_logged |-> r.attack_logged]]
    ELSE [panicked |-> TRUE, queue |-> queue, out |-> NoListen]

\* Server::on_tick skipping an absent LuaEngine (the is_some() bypass).
on_tick_lua_bypass(s, d) ==
    IF IsSome(s.lua_engine)
    THEN [panicked |-> FALSE,
          server |-> [s EXCEPT !.lua_engine = Some(LuaEngineOnTick(Unwrap(s.lua_engine), d))]]
    ELSE [panicked |-> FALSE, server |-> s]

\* Server::on_tick ticking the LuaEngine with a zero delta.
on_tick_lua_zero(s, d) ==
    IF IsSome(s.lua_engine)
    THEN [panicked |-> FALSE,
          server |-> [s EXCEPT !.lua_engine = Some(LuaEngineOnTick(Unwrap(s.lua_engine), 0))]]
    ELSE [panicked |-> TRUE, server |-> s]

\* Server::on_tick, second match: the LuaEngine's tick, or the panic on an absent engine.
on_tick_lua(s, d) ==
    IF IsSome(s.lua_engine)
    THEN [panicked |-> FALSE,
          server |-> [s EXCEPT !.lua_engine = Some(LuaEngineOnTick(Unwrap(s.lua_engine), d))]]
    ELSE [panicked |-> TRUE, server |-> s]

\* server.on_tick(self.delta) up to the end of its first match.
ServerOnTickReceive ==
    /\ pc = "on_tick"
    /\ serverclient = "Server"
    /\ tick_delta' = delta
    /\ LET r == on_tick_receive(server, events) IN
         /\ events' = r.queue
         /\ listen_out' = r.out
         /\ pc' = IF r.panicked THEN "panicked" ELSE "lua_tick"
         /\ h_trace' = IF r.out.called THEN Append(h_trace, "poll") ELSE h_trace
    /\ UNCHANGED << should_close, serverclient, goal_frames_per_second,
                    goal_ticks_per_second, interval, delta, current_fps, vsync_mode,
                    server, client, bound_sockets, h_vms, h_resets, h_flag_at_main,
                    h_stop_reported, h_first, h_attempts, server_strong >>

\* server.on_tick(self.delta), its second match, and its return: the argument and
\* what the poll printed are gone. The script may approve a shutdown.
ServerOnTickLua ==
    /\ pc = "lua_tick"
    /\ LET r == on_tick_lua(server, tick_delta) IN
         \E approved \in BOOLEAN :
           /\ server' = IF r.panicked THEN server
                        ELSE [r.server EXCEPT !.shutdown_approved = approved]
           /\ pc' = IF r.panicked THEN "panicked" ELSE "stop_query"
           /\ h_trace' = IF r.panicked THEN h_trace ELSE Append(h_trace, "lua")
           /\ tick_delta' = IF r.panicked THEN tick_delta ELSE 0
           /\ listen_out' = IF r.panicked THEN listen_out ELSE NoListen
    /\ UNCHANGED << should_close, serverclient, goal_frames_per_second,
                    goal_ticks_per_second, interval, delta, current_fps, vsync_mode,
                    client, events, bound_sockets, h_vms, h_resets, h_flag_at_main,
                    h_stop_reported, h_first, h_attempts, server_strong >>

\* client.on_tick(self.delta); the window may ask to quit.
ClientOnTick ==
    /\ pc = "on_tick"
    /\ serverclient = "Client"
    /\ \E quit \in BOOLEAN : client' = [client EXCEPT !.quit = quit]
    /\ pc' = "stop_query"
    /\ h_trace' = Append(h_trace, "client_tick")
    /\ UNCHANGED << should_close, serverclient, goal_frames_per_second,
                    goal_ticks_per_second, interval, delta, current_fps, vsync_mode,
                    server, events, bound_sockets, tick_delta, listen_out, h_vms,
                    h_resets, h_flag_at_main, h_stop_reported,
                    h_first, h_attempts, server_strong >>

\* What the role answers when main asks it whether to stop.
RoleWantsStop ==
    IF serverclient = "Server" THEN shutdown_is_approved(server) ELSE should_quit(client)

\* main asking the role and dropping its answer.
main_stop_query_ignored(stop, flag) == flag

\* main, after on_tick: the flag as the stop query leaves it.
main_stop_query(stop, flag) == IF stop THEN shutdown_game ELSE flag

\* main returning to the loop's flag check as soon as the role asked to stop.
MainStopQueryBreaks ==
    /\ pc = "stop_query"
    /\ should_close' = main_stop_query(RoleWantsStop, should_close)
    /\ h_stop_reported' = RoleWantsStop
    /\ pc' = IF RoleWantsStop THEN "check" ELSE "report"
    /\ h_trace' = Append(h_trace, "stop_query")
    /\ UNCHANGED << serverclient, goal_frames_per_second, goal_ticks_per_second,
                    interval, delta, current_fps, vsync_mode, server, client, events,
                    bound_sockets, tick_delta, listen_out, h_vms, h_resets,
                    h_flag_at_main, h_first, h_attempts, server_strong >>

\* if server.shutdown_is_approved() / client.should_quit() { self.shutdown_game() }
MainStopQuery ==
    /\ pc = "stop_query"
    /\ should_close' = main_stop_query(RoleWantsStop, should_close)
    /\ h_stop_reported' = RoleWantsStop
    /\ pc' = "report"
    /\ h_trace' = Append(h_trace, "stop_query")
    /\ UNCHANGED << serverclient, goal_frames_per_second, goal_ticks_per_second,
                    interval, delta, current_fps, vsync_mode, server, client, events,
                    bound_sockets, tick_delta, listen_out, h_vms, h_resets,
                    h_flag_at_main, h_first, h_attempts, server_strong >>

\* fps_reporter.increment_and_report(): a sample once per window, and the title.
MainReport ==
    /\ pc = "report"
    /\ \E sample \in {None} \cup {Some(f) : f \in FpsSamples} :
         IF IsSome(sample)
         THEN /\ current_fps' = Unwrap(sample)
              /\ client' = IF serverclient = "Client"
                           THEN [client EXCEPT !.title = << "minetest | ", Unwrap(sample), " FPS" >>]
                           ELSE client
         ELSE UNCHANGED << current_fps, client >>
    /\ pc' = "pace"
    /\ h_trace' = Append(h_trace, "report")
    /\ UNCHANGED << should_close, serverclient, goal_frames_per_second,
                    goal_ticks_per_second, interval, delta, vsync_mode, server, events,
                    bound_sockets, tick_delta, listen_out, h_vms, h_resets,
                    h_flag_at_main, h_stop_reported, h_first, h_attempts, server_strong >>

\* main pacing on the vsync mode alone.
main_paces_vsync_only(mode, role) == mode = "Off"

\* Whether main runs self.interval.tick().
main_paces(mode, role) == mode = "Off" \/ role = "Server"

\* if self.vsync_mode == VSyncMode::Off || self.serverclient.is_server() { interval.tick() }
MainPace ==
    /\ pc = "pace"
    /\ pc' = "check"
    /\ h_trace' = IF main_paces(vsync_mode, serverclient)
                  THEN Append(h_trace, "pace") ELSE h_trace
    /\ UNCHANGED << should_close, serverclient, goal_frames_per_second,
                    goal_ticks_per_second, interval, delta, current_fps, vsync_mode,
                    server, client, events, bound_sockets, tick_delta, listen_out,
                    h_vms, h_resets, h_flag_at_main, h_stop_reported,
                    h_first, h_attempts, server_strong >>

\* The loop reading the flag as a "keep running" flag.
loop_check_inverted(flag) == IF flag THEN "main" ELSE "returned"

\* enter_main_loop after self.main(): where the loop thread goes on the flag it read.
loop_check(flag) == IF flag THEN "returned" ELSE "main"

\* match self.should_close.deref().read() { Ok(should_close) => if *should_close { break } }
LoopCheck ==
    /\ pc = "check"
    /\ pc' = loop_check(should_close)
    /\ h_trace' = Append(h_trace, "read_flag")
    /\ h_first' = IF pc' = "main" THEN FALSE ELSE h_first
    /\ UNCHANGED << should_close, serverclient, goal_frames_per_second,
                    goal_ticks_per_second, interval, delta, current_fps, vsync_mode,
                    server, client, events, bound_sockets, tick_delta, listen_out,
                    h_vms, h_resets, h_flag_at_main, h_stop_reported,
                    h_attempts, server_strong >>

\* reset_lua_vm called between two ticks.
ResetLuaVm ==
    /\ serverclient = "Server"
    /\ pc \in {"idle", "returned", "main"}
    /\ h_resets < MaxResets
    /\ LET r == reset_lua_vm(server, h_vms) IN
         /\ server' = r.server
         /\ h_vms' = r.vms
    /\ h_resets' = h_resets + 1
    /\ UNCHANGED << pc, should_close, serverclient, goal_frames_per_second,
                    goal_ticks_per_second, interval, delta, current_fps, vsync_mode,
                    client, events, bound_sockets, tick_delta, listen_out, h_trace,
                    h_flag_at_main, h_stop_reported, h_first, h_attempts, server_strong >>

\* The transport's receiver thread queues an event for the listener, which holds
\* fewer than most events.
EventArrivesUpTo(most) ==
    /\ serverclient = "Server"
    /\ Constructed
    /\ Len(events) < most
    /\ \E event \in Events : events' = Append(events, event)
    /\ UNCHANGED << pc, should_close, serverclient, goal_frames_per_second,
                    goal_ticks_per_second, interval, delta, current_fps, vsync_mode,
                    server, client, bound_sockets, tick_delta, listen_out, h_trace,
                    h_vms, h_resets, h_flag_at_main, h_stop_reported,
                    h_first, h_attempts, server_strong >>

EventArrives == EventArrivesUpTo(MaxQueue)
FairEventArrives == EventArrivesUpTo(MaxFairQueue)

\* The steps of the loop thread inside enter_main_loop.
LoopThread ==
    \/ MainDelta
    \/ ServerOnTickReceive
    \/ ServerOnTickLua
    \/ ClientOnTick
    \/ MainStopQuery
    \/ MainReport
    \/ MainPace
    \/ LoopCheck

Next ==
    \/ GameNew
    \/ SignalHandler
    \/ ShutdownGame
    \/ SetFrameRateTarget
    \/ SetTickRateTarget
    \/ EnterMainLoop
    \/ LoopThread
    \/ ResetLuaVm
    \/ EventArrives
    \/ GameDrop

Spec == Init /\ [][Next]_vars

\* The same program with a shorter event queue.
FairNext ==
    \/ GameNew
    \/ SignalHandler
    \/ ShutdownGame
    \/ SetFrameRateTarget
    \/ SetTickRateTarget
    \/ EnterMainLoop
    \/ LoopThread
    \/ ResetLuaVm
    \/ FairEventArrives
    \/ GameDrop

\* connection.set_address called between two ticks.
SetAddress ==
    /\ serverclient = "Server"
    /\ pc \in {"idle", "returned", "main"}
    /\ IsSome(server.connection)
    /\ \E new_address \in AddressInputs :
         server' = [server EXCEPT
                      !.connection = Some(set_address(Unwrap(server.connection), new_address))]
    /\ UNCHANGED << pc, should_close, serverclient, goal_frames_per_second,
                    goal_ticks_per_second, interval, delta, current_fps, vsync_mode,
                    client, events, bound_sockets, tick_delta, listen_out, h_trace,
                    h_vms, h_resets, h_flag_at_main, h_stop_reported, h_first,
                    h_attempts, server_strong >>

\* connection.set_port called between two ticks.
SetPort ==
    /\ serverclient = "Server"
    /\ pc \in {"idle", "returned", "main"}
    /\ IsSome(server.connection)
    /\ \E new_port \in PortInputs :
         server' = [server EXCEPT
                      !.connection = Some(set_port(Unwrap(server.connection), new_port))]
    /\ UNCHANGED << pc, should_close, serverclient, goal_frames_per_second,
                    goal_ticks_per_second, interval, delta, current_fps, vsync_mode,
                    client, events, bound_sockets, tick_delta, listen_out, h_trace,
                    h_vms, h_resets, h_flag_at_main, h_stop_reported, h_first,
                    h_attempts, server_strong >>

\* The program with the setters of its ServerConnection called between ticks.
ConnNext ==
    \/ GameNew
    \/ SignalHandler
    \/ SetAddress
    \/ SetPort
    \/ EnterMainLoop
    \/ LoopThread
    \/ FairEventArrives

ConnSpec == Init /\ [][ConnNext]_vars

\* A Server whose fields are in any of the states Server::new passes through or
\* leaves: the connection absent or bound, the LuaEngine absent or fresh.
RawSocket == << "127.0.0.1", 30000 >>
RawConnection ==
    [address |-> RawSocket[1], port |-> RawSocket[2], task |-> Some(RawSocket),
     listener |-> Some(RawSocket)]

InitRaw ==
    /\ pc = "idle"
    /\ should_close = FALSE
    /\ serverclient = "Server"
    /\ goal_frames_per_second = InitialGoalFramesPerSecond
    /\ goal_ticks_per_second = InitialGoalTicksPerSecond
    /\ interval = PeriodOf(InitialGoalTicksPerSecond)
    /\ delta = 0
    /\ current_fps = 0
    /\ vsync_mode = "Off"
    /\ \E has_connection \in BOOLEAN, has_lua_engine \in BOOLEAN :
         /\ server = [lua_engine |-> IF has_lua_engine THEN Some(LuaEngineNew(1)) ELSE None,
                      connection |-> IF has_connection THEN Some(RawConnection) ELSE None,
                      shutdown_approved |-> FALSE]
         /\ bound_sockets = IF has_connection THEN {RawSocket} ELSE {}
         /\ h_vms = IF has_lua_engine THEN [created |-> 1, live |-> {1}, peak |-> 1]
                                      ELSE [created |-> 0, live |-> {}, peak |-> 0]
    /\ client = ClientNew
    /\ events = << >>
    /\ tick_delta = 0
    /\ listen_out = NoListen
    /\ h_trace = << >>
    /\ h_resets = 0
    /\ h_flag_at_main = 0
    /\ h_stop_reported = FALSE
    /\ h_first = FALSE
    /\ h_attempts = HeldBy(bound_sockets)
    /\ server_strong = RcClone(RcClone(RcNew))

\* The operations of a Server role on such a Server.
NextRaw ==
    \/ SignalHandler
    \/ ShutdownGame
    \/ EnterMainLoop
    \/ MainDelta
    \/ ServerOnTickReceive
    \/ ServerOnTickLua
    \/ MainStopQuery
    \/ MainReport
    \/ MainPace
    \/ LoopCheck
    \/ ResetLuaVm
    \/ FairEventArrives

SpecRaw == InitRaw /\ [][NextRaw]_vars

\* enum VSyncMode
VSyncModes == {"Off", "On", "Double", "Triple"}

\* A Game as Game::new returns it, of either role, with the vsync_mode field holding
\* any variant of VSyncMode.
InitVsync ==
    /\ pc = "idle"
    /\ should_close = FALSE
    /\ serverclient \in {"Server", "Client"}
    /\ goal_frames_per_second = InitialGoalFramesPerSecond
    /\ goal_ticks_per_second = InitialGoalTicksPerSecond
    /\ interval = update_target_framerate_goal(serverclient, goal_frames_per_second,
                                               goal_ticks_per_second)
    /\ delta = 0
    /\ current_fps = 0
    /\ vsync_mode \in VSyncModes
    /\ IF serverclient = "Server"
       THEN /\ server = [lua_engine |-> Some(LuaEngineNew(1)),
                         connection |-> Some(RawConnection),
                         shutdown_approved |-> FALSE]
            /\ bound_sockets = {RawSocket}
            /\ h_vms = [created |-> 1, live |-> {1}, peak |-> 1]
            /\ server_strong = RcClone(RcClone(RcNew))
       ELSE /\ server = ServerAllocated
            /\ bound_sockets = {}
            /\ h_vms = [created |-> 0, live |-> {}, peak |-> 0]
            /\ server_strong = 0
    /\ client = ClientNew
    /\ events = << >>
    /\ tick_delta = 0
    /\ listen_out = NoListen
    /\ h_trace = << >>
    /\ h_resets = 0
    /\ h_flag_at_main = 0
    /\ h_stop_reported = FALSE
    /\ h_first = FALSE
    /\ h_attempts = HeldBy(bound_sockets)

\* The loop of such a Game.
NextVsync ==
    \/ SignalHandler
    \/ ShutdownGame
    \/ EnterMainLoop
    \/ LoopThread
    \/ FairEventArrives

SpecVsync == InitVsync /\ [][NextVsync]_vars

\* The loop thread is scheduled fairly; signals, events and API calls need not come.
FairSpec == Init /\ [][FairNext]_vars /\ WF_vars(LoopThread)

\* ------------------------------------------------------------ properties
\* The positions of the loop thread inside enter_main_loop.
LoopPcs == {"main", "on_tick", "lua_tick", "stop_query", "report", "pace", "check"}
InLoop == pc \in LoopPcs

\* The steps of one whole iteration of the role, the read of the flag last.
FullIteration ==
    IF serverclient = "Server"
    THEN << "delta", "poll", "lua", "stop_query", "report", "pace", "read_flag" >>
    ELSE << "delta", "client_tick", "stop_query", "report", "pace", "read_flag" >>

IsPrefix(a, b) == Len(a) <= Len(b) /\ SubSeq(b, 1, Len(a)) = a
Count(seq, x) == Cardinality({i \in 1..Len(seq) : seq[i] = x})
IndexOf(seq, x) == CHOOSE i \in 1..Len(seq) : seq[i] = x

\* C1: once should_close is true it stays true: no step of the signal handler,
\* shutdown_game, main, enter_main_loop or the two rate setters stores false in it.
C1_FlagStaysSet == [][should_close => should_close']_vars

\* C1 witness: the flag was set before an iteration began and is still set when the
\* loop thread reaches its read of it.
C1_Witness == should_close /\ pc = "check" /\ h_flag_at_main = 1

\* C2: within one call of enter_main_loop at most one main() begins with the flag
\* already true, and under fair scheduling of the loop thread a set flag leads to
\* the loop's exit (or to the abort of the process inside on_tick).
C2_ExitWithinOneIteration ==
    /\ [](h_flag_at_main <= 1)
    /\ ((should_close /\ InLoop) ~> (pc \in {"returned", "panicked"}))

\* C2 witness: a main() began with the flag already true and the loop has returned.
C2_Witness == pc = "returned" /\ h_flag_at_main = 1

\* C3: the loop reads the flag once per iteration and only after the role's tick, the
\* stop query, the rate report and the pacing step: the steps done so far are always a
\* prefix of the whole iteration, the read is its last step, and enter_main_loop has
\* returned only after a whole iteration, whenever the flag was set.
C3_CooperativeCancellation ==
    /\ (InLoop \/ pc = "returned") => IsPrefix(h_trace, FullIteration)
    /\ Count(h_trace, "read_flag") <= 1
    /\ pc = "returned" => h_trace = FullIteration
    /\ pc \in {"on_tick", "lua_tick", "stop_query", "report", "pace", "check"}
         => Count(h_trace, "read_flag") = 0

\* C3 witness: the flag was set in the middle of an iteration, by the signal handler,
\* and the loop returned after the whole iteration.
C3_Witness == pc = "returned" /\ h_flag_at_main = 0 /\ ~h_stop_reported

\* C4: when the role reports stop after on_tick, main sets the flag in that iteration
\* and the loop's next read of it ends enter_main_loop; when the role does not report
\* stop, no step of main changes the flag.
C4_RoleStopEndsLoop ==
    [][ /\ (pc = "stop_query" /\ pc' /= pc /\ RoleWantsStop)
             => (should_close' /\ h_stop_reported')
        /\ (pc = "stop_query" /\ pc' /= pc /\ ~RoleWantsStop)
             => (should_close' = should_close /\ ~h_stop_reported')
        /\ (pc \in LoopPcs \ {"stop_query"} /\ pc' /= pc) => should_close' = should_close
        /\ (h_stop_reported /\ pc \in {"report", "pace", "check"}) => should_close
        /\ (h_stop_reported /\ pc = "check" /\ pc' /= pc) => pc' = "returned"
        /\ (pc' = "main") => ~h_stop_reported'
      ]_vars

\* C4 witness: an iteration began with the flag unset, the role reported stop in it,
\* and the loop returned at its end.
C4_Witness == pc = "returned" /\ h_stop_reported /\ h_flag_at_main = 0

\* C5: a Server on_tick that returned made one poll of the connection and then one
\* tick of the scripting engine, in that order, and the engine got the delta of the
\* iteration; while the engine's tick is pending the poll is already done.
C5_PollBeforeLuaTick ==
    /\ (serverclient = "Server" /\ pc \in {"stop_query", "report", "pace", "check"})
         => /\ Count(h_trace, "poll") = 1
            /\ Count(h_trace, "lua") = 1
            /\ IndexOf(h_trace, "poll") < IndexOf(h_trace, "lua")
            /\ IsSome(server.lua_engine)
            /\ Unwrap(server.lua_engine).ticked
            /\ Unwrap(server.lua_engine).delta = delta
    /\ pc = "lua_tick"
         => /\ h_trace = << "delta", "poll" >>
            /\ listen_out.called
            /\ tick_delta = delta

\* C5 witness: a Server on_tick has returned with the engine ticked by this delta.
C5_Witness ==
    /\ serverclient = "Server"
    /\ pc = "stop_query"
    /\ h_trace = << "delta", "poll", "lua" >>
    /\ Unwrap(server.lua_engine).delta = 16

\* C6: a Server on_tick entered with the connection absent, the LuaEngine absent or
\* both absent ends in a panic and never returns; the LuaEngine's tick is dispatched
\* only with both present.
C6_AbsentSubsystemPanics ==
    [][ /\ (pc = "on_tick" /\ pc' /= pc /\ ~IsSome(server.connection))
             => (pc' = "panicked" /\ server' = server /\ events' = events)
        /\ (pc = "on_tick" /\ pc' /= pc /\ IsSome(server.connection))
             => (pc' \in {"lua_tick", "panicked"} /\ server' = server)
        /\ (pc = "lua_tick") => IsSome(server.connection)
        /\ (pc = "lua_tick" /\ pc' = pc) => server' = server
        /\ (pc = "lua_tick" /\ pc' /= pc /\ ~IsSome(server.lua_engine))
             => (pc' = "panicked" /\ server' = server)
        /\ (pc = "lua_tick" /\ pc' /= pc /\ IsSome(server.lua_engine))
             => (pc' = "stop_query" /\ Unwrap(server'.lua_engine).ticked)
        /\ (Count(h_trace', "lua") > Count(h_trace, "lua"))
             => (IsSome(server.connection) /\ IsSome(server.lua_engine))
      ]_vars

\* C6 witness: on_tick was entered with both absent and the process has panicked
\* before any poll.
C6_Witness ==
    /\ pc = "panicked"
    /\ ~IsSome(server.connection)
    /\ ~IsSome(server.lua_engine)
    /\ h_trace = << "delta" >>

\* C7: a constructed Server has its connection and its LuaEngine, after any ticks and
\* resets, so a panic of a Server process comes from the event its poll took, never
\* from an absent connection or LuaEngine.
C7_ConstructedServerIsWhole ==
    serverclient = "Server"
        => /\ IsSome(server.connection)
           /\ IsSome(server.lua_engine)
           /\ pc = "panicked" => (listen_out.called /\ IsSome(listen_out.took))

\* C7 witness: an on_tick has returned on a Server that was reset after construction.
C7_Witness == serverclient = "Server" /\ h_resets >= 1 /\ pc = "stop_query"

\* C8: reset_lua_vm drops the handle the Server held before it makes the new one and
\* leaves one handle, made by LuaEngine::new and never seen before; the LuaEngine match
\* of the on_tick that follows does not panic and ticks that newest handle.
C8_ResetGivesFreshEngine ==
    [][ /\ (h_resets' = h_resets + 1)
             => /\ server'.lua_engine = Some(LuaEngineNew(h_vms.created + 1))
                /\ h_vms'.created = h_vms.created + 1
                /\ h_vms'.live = {h_vms'.created}
                /\ h_vms'.peak <= 1
        /\ (serverclient = "Server" /\ pc \in {"main", "on_tick"} /\ pc' /= pc)
             => server' = server
        /\ (pc = "lua_tick" /\ pc' /= pc)
             => /\ pc' = "stop_query"
                /\ Unwrap(server'.lua_engine).id = h_vms.created
                /\ Unwrap(server'.lua_engine).id = Unwrap(server.lua_engine).id
                /\ Unwrap(server'.lua_engine).ticked
      ]_vars

\* C8 witness: after two resets an on_tick has returned, having ticked the third handle.
C8_Witness ==
    /\ pc = "stop_query"
    /\ h_resets = 2
    /\ server.lua_engine = Some(LuaEngineOnTick(LuaEngineNew(3), 16))
    /\ h_vms.live = {3}

\* C9: the reaction to a Message event never panics; a payload that is not UTF-8 is
\* dropped and no "received message" is surfaced for it; a payload that is UTF-8 is
\* surfaced as the received message, byte for byte.
C9_MessageReaction ==
    (listen_out.called /\ IsSome(listen_out.took)
        /\ Unwrap(listen_out.took).kind = "Message")
        => /\ pc /= "panicked"
           /\ IF Utf8ValidFrom(Unwrap(listen_out.took).message, 1)
              THEN listen_out.surfaced = << Unwrap(listen_out.took).message >>
              ELSE listen_out.surfaced = << >>

\* C10: a listen call makes one zero-timeout receive; on an empty queue it changes
\* nothing and on_tick goes on; otherwise it takes the oldest event, reacts to that
\* one, and leaves the others queued in their order.
C10_ListenTakesOneEvent ==
    [][ (pc = "on_tick" /\ serverclient = "Server" /\ pc' /= pc)
            => /\ listen_out'.called
               /\ listen_out'.polls = 1
               /\ server' = server
               /\ bound_sockets' = bound_sockets
               /\ (events = << >>)
                    => /\ events' = << >>
                       /\ listen_out'.took = None
                       /\ listen_out'.surfaced = << >>
                       /\ pc' = "lua_tick"
               /\ (events /= << >>)
                    => /\ events' = Tail(events)
                       /\ listen_out'.took = Some(Head(events))
                       /\ listen_out'.left = Len(events) - 1
      ]_vars

\* C10 witness: a listen call took an event and left another one queued.
C10_Witness ==
    /\ pc = "lua_tick"
    /\ IsSome(listen_out.took)
    /\ listen_out.left >= 1
    /\ listen_out.polls = 1

\* C11: set_frame_rate_target gives the interval a new period only when the role is
\* Client and leaves the period alone when it is Server; set_tick_rate_target gives
\* it a new period only when the role is Server; either setter stores its goal
\* whatever the role, and leaves the other goal alone.
C11_SetterRoleIsolation ==
    [][ /\ (goal_frames_per_second' /= goal_frames_per_second)
             => /\ goal_frames_per_second' \in RateInputs
                /\ goal_ticks_per_second' = goal_ticks_per_second
                /\ IF serverclient = "Client"
                   THEN /\ interval' = PeriodOf(goal_frames_per_second')
                        /\ interval' /= interval
                   ELSE interval' = interval
        /\ (goal_ticks_per_second' /= goal_ticks_per_second)
             => /\ goal_ticks_per_second' \in RateInputs
                /\ goal_frames_per_second' = goal_frames_per_second
                /\ IF serverclient = "Server"
                   THEN /\ interval' = PeriodOf(goal_ticks_per_second')
                        /\ interval' /= interval
                   ELSE interval' = interval
      ]_vars

\* C11 witness: a Server whose frame goal was set; its period is still that of the
\* initial tick goal.
C11_Witness ==
    /\ serverclient = "Server"
    /\ goal_frames_per_second = 30
    /\ goal_ticks_per_second = InitialGoalTicksPerSecond
    /\ interval = PeriodOf(InitialGoalTicksPerSecond)

\* C12: whenever a role exists, the interval's period is 1 / the goal of that role:
\* goal_ticks_per_second for a Server, goal_frames_per_second for a Client; with the
\* goals Game::new stores that is 1/20 s and 1/60 s.
C12_PeriodFollowsActiveGoal ==
    /\ serverclient = "Server" => interval = PeriodOf(goal_ticks_per_second)
    /\ serverclient = "Client" => interval = PeriodOf(goal_frames_per_second)
    /\ (serverclient = "Server" /\ goal_ticks_per_second = 20) => interval = 50000000
    /\ (serverclient = "Client" /\ goal_frames_per_second = 60) => interval = 16666666

\* C12 witness: a Client after both setters were called, inside its loop.
C12_Witness ==
    /\ serverclient = "Client"
    /\ pc = "check"
    /\ goal_frames_per_second = 30
    /\ goal_ticks_per_second = 30
    /\ interval = PeriodOf(30)

\* C13: a bind succeeds exactly when its address:port resolves and no earlier bind
\* still holds it, so no two live connections hold the same address:port; a
\* ServerConnection that was constructed is bound to the socket it asked for, and
\* a bind that fails inside Game::new aborts the process there.
C13_BindIsExclusive ==
    /\ \A j \in 1..Len(h_attempts) :
         /\ h_attempts[j].bound <=>
               /\ ToSocketAddrsOk(h_attempts[j].socket)
               /\ \A i \in 1..(j - 1) :
                     ~(h_attempts[i].bound /\ h_attempts[i].socket = h_attempts[j].socket)
         /\ h_attempts[j].bound => h_attempts[j].socket \in bound_sockets
    /\ \A i, j \in 1..Len(h_attempts) :
         (i /= j /\ h_attempts[i].bound /\ h_attempts[j].bound)
            => h_attempts[i].socket /= h_attempts[j].socket
    /\ serverclient = "Server"
         => /\ IsSome(server.connection)
            /\ IsSome(Unwrap(server.connection).task)
            /\ IsSome(Unwrap(server.connection).listener)
            /\ Unwrap(Unwrap(server.connection).task) \in bound_sockets
            /\ h_attempts /= << >>
            /\ h_attempts[Len(h_attempts)] =
                  [socket |-> Unwrap(Unwrap(server.connection).task), bound |-> TRUE]
    /\ (h_attempts /= << >> /\ ~h_attempts[Len(h_attempts)].bound)
         => /\ pc = "panicked"
            /\ serverclient = "None"

\* C13 witness: Game::new asked for a socket a live connection already held, and the
\* process aborted in the constructor.
C13_Witness ==
    /\ pc = "panicked"
    /\ Len(h_attempts) = 2
    /\ h_attempts[1].bound
    /\ h_attempts[2] = [socket |-> h_attempts[1].socket, bound |-> FALSE]

\* C14: set_address and set_port store the new value and nothing else: task and
\* listener are the ones initialize stored, no socket is bound or released, no event
\* is taken, so the endpoint stays bound to the address:port of construction while
\* get_socket gives the stored address:port.
C14_SettersOnlyStore ==
    [][ (IsSome(server.connection) /\ IsSome(server'.connection))
          => LET conn == Unwrap(server.connection)
                 after == Unwrap(server'.connection)
             IN  /\ (after.address /= conn.address \/ after.port /= conn.port)
                      => /\ after.address \in AddressInputs \/ after.port \in PortInputs
                         /\ after.address = conn.address \/ after.port = conn.port
                         /\ after.task = conn.task
                         /\ after.listener = conn.listener
                         /\ server'.lua_engine = server.lua_engine
                         /\ bound_sockets' = bound_sockets
                         /\ events' = events
                         /\ pc' = pc
                 /\ after.task = Some(h_attempts'[Len(h_attempts')].socket)
                 /\ after.listener = after.task
                 /\ Unwrap(after.task) \in bound_sockets'
                 /\ get_socket(after) = << after.address, after.port >>
      ]_vars

\* C14 witness: both setters were called; get_socket gives the stored socket and the
\* listener is the one bound at construction.
C14_Witness ==
    /\ serverclient = "Server"
    /\ get_socket(Unwrap(server.connection)) = << "0.0.0.0", 30001 >>
    /\ Unwrap(server.connection).listener = Some(<< "127.0.0.1", 30000 >>)
    /\ bound_sockets = {<< "127.0.0.1", 30000 >>}

\* C15: a constructed ServerConnection has its task and its listener, whatever
\* listen, event_reaction, set_address and set_port calls were made on it, so a
\* poll that aborts the process has made its receive and taken an event: listen's
\* "listener does not exist" branch is never the one taken.
C15_ConnectionStaysBound ==
    /\ serverclient = "Server"
         => /\ IsSome(server.connection)
            /\ IsSome(Unwrap(server.connection).task)
            /\ IsSome(Unwrap(server.connection).listener)
            /\ Unwrap(Unwrap(server.connection).listener) \in bound_sockets
    /\ (serverclient = "Server" /\ pc = "panicked")
         => /\ listen_out.called
            /\ listen_out.polls = 1
            /\ IsSome(listen_out.took)
    /\ (serverclient = "Server" /\ listen_out.called) => listen_out.polls = 1

\* C15 witness: after set_address and set_port a listen call polled the listener
\* and returned.
C15_Witness ==
    /\ serverclient = "Server"
    /\ pc = "lua_tick"
    /\ listen_out.called
    /\ listen_out.polls = 1
    /\ Unwrap(server.connection).address = "0.0.0.0"
    /\ Unwrap(server.connection).port = 30001

\* C16: a poll that takes an Accepted or a Disconnected event aborts the process in
\* that step: the event is consumed, the Server is as it was, the LuaEngine's tick of
\* the iteration is never made, and nothing runs afterwards. A poll that takes a
\* Connected event changes nothing of the connection, prints no message, and on_tick
\* goes on to the LuaEngine's tick.
C16_StubEventsAreFatal ==
    [][ /\ pc /= "panicked"
        /\ (pc = "on_tick" /\ serverclient = "Server" /\ pc' /= pc /\ events /= << >>)
             => /\ Head(events).kind \in {"Accepted", "Disconnected"}
                     => /\ pc' = "panicked"
                        /\ events' = Tail(events)
                        /\ listen_out'.took = Some(Head(events))
                        /\ server' = server
                        /\ h_trace' = << "delta", "poll" >>
                /\ Head(events).kind = "Connected"
                     => /\ pc' = "lua_tick"
                        /\ events' = Tail(events)
                        /\ server' = server
                        /\ bound_sockets' = bound_sockets
                        /\ listen_out'.surfaced = << >>
                        /\ ~listen_out'.attack_logged
      ]_vars

\* C16 witness: the process aborted in a poll that took a Disconnected event; the
\* LuaEngine handle was never ticked.
C16_Witness ==
    /\ pc = "panicked"
    /\ serverclient = "Server"
    /\ listen_out.took = Some(NetEvent("Disconnected", << >>))
    /\ h_trace = << "delta", "poll" >>
    /\ ~Unwrap(server.lua_engine).ticked

\* C17: an iteration of a Server runs interval.tick() exactly once, whatever the
\* vsync mode; an iteration of a Client runs it exactly once when the mode is Off
\* and not at all when it is On, Double or Triple. The tick comes after the report
\* and before the read of the flag.
C17_PacingByRoleAndVsync ==
    /\ pc \in {"check", "returned"}
         => /\ Count(h_trace, "pace") =
                  IF serverclient = "Server" \/ vsync_mode = "Off" THEN 1 ELSE 0
            /\ Count(h_trace, "pace") = 1
                  => h_trace[IndexOf(h_trace, "pace") - 1] = "report"
    /\ pc \in {"on_tick", "lua_tick", "stop_query", "report", "pace", "panicked"}
         => Count(h_trace, "pace") = 0
    /\ vsync_mode \in VSyncModes

\* C17 witness: a Client in Double mode has completed an iteration without pacing.
C17_Witness ==
    /\ serverclient = "Client"
    /\ vsync_mode = "Double"
    /\ pc = "returned"
    /\ h_trace = << "delta", "client_tick", "stop_query", "report", "read_flag" >>

\* C18: once the Game has released its Server, nothing of the Server is alive: the
\* allocation has no strong reference left, the LuaEngine handle and the
\* ServerConnection are dropped, and the socket is released.
C18_TeardownDestroysServer ==
    (pc = "dropped" /\ serverclient = "Server")
        => /\ server_strong = 0
           /\ ~IsSome(server.lua_engine)
           /\ ~IsSome(server.connection)
           /\ h_vms.live = {}
           /\ h_attempts[Len(h_attempts)].socket \notin bound_sockets

\* C19: enter_main_loop begins with a call of main, not with a read of the flag:
\* every read of the flag comes after a whole main. A first main that begins with
\* the flag already true, as when the flag was true at the call of enter_main_loop,
\* runs whole, and the read after it ends the loop: one iteration, then the return.
C19_IterationBeforeFirstRead ==
    [][ /\ (pc \in {"idle", "returned"} /\ pc' \notin {pc, "dropped"})
             => /\ pc' = "main"
                /\ h_first'
                /\ h_trace' = << >>
        /\ (pc = "main" /\ pc' /= pc)
             => /\ pc' = "on_tick"
                /\ (h_first /\ should_close) => h_flag_at_main' = 1
        /\ (pc = "check" /\ pc' /= pc)
             => /\ h_trace' = FullIteration
                /\ (h_first /\ h_flag_at_main = 1)
                     => /\ pc' = "returned"
                        /\ h_first'
        /\ (pc' = "returned" /\ pc' /= pc) => pc = "check"
      ]_vars

\* C19 witness: the loop has returned after its first iteration, which began with
\* the flag already true and ran whole.
C19_Witness ==
    /\ pc = "returned"
    /\ h_first
    /\ h_flag_at_main = 1
    /\ ~h_stop_reported
    /\ h_trace = FullIteration

\* C20: on_tick tests the connection, polls, and only then tests the LuaEngine. With
\* the connection absent the panic comes with no poll made, no event taken and no
\* tick of the LuaEngine. With the connection present and the LuaEngine absent the
\* poll is made first, taking at most the oldest queued event, and the panic on the
\* absent LuaEngine comes after it.
C20_PresenceChecksInSequence ==
    [][ /\ (pc = "on_tick" /\ pc' /= pc /\ ~IsSome(server.connection))
             => /\ pc' = "panicked"
                /\ ~listen_out'.called
                /\ listen_out'.polls = 0
                /\ events' = events
                /\ h_trace' = << "delta" >>
                /\ server' = server
        /\ (pc = "on_tick" /\ pc' /= pc /\ IsSome(server.connection))
             => /\ listen_out'.called
                /\ listen_out'.polls = 1
                /\ h_trace' = << "delta", "poll" >>
                /\ events' = IF events = << >> THEN << >> ELSE Tail(events)
                /\ listen_out'.took = IF events = << >> THEN None ELSE Some(Head(events))
        /\ (pc = "lua_tick" /\ pc' /= pc /\ ~IsSome(server.lua_engine))
             => /\ pc' = "panicked"
                /\ listen_out.called
                /\ listen_out.polls = 1
                /\ UNCHANGED << listen_out, events, server >>
                /\ h_trace' = << "delta", "poll" >>
      ]_vars

\* C20 witness: with the connection present and the LuaEngine absent, the poll took
\* a Message event and the process then panicked on the absent LuaEngine.
C20_Witness ==
    /\ pc = "panicked"
    /\ IsSome(server.connection)
    /\ ~IsSome(server.lua_engine)
    /\ listen_out.called
    /\ IsSome(listen_out.took)
    /\ Unwrap(listen_out.took).kind = "Message"
    /\ h_trace = << "delta", "poll" >>

====
